---- MODULE Spec2Model ----
(***************************************************************************)
(* cargo-fixit: the iterative diagnostic-fix loop.                         *)
(*                                                                         *)
(* Two implementations of the loop live in the repository and both are     *)
(* modelled, selected by the variable impl:                                *)
(*   "ops" : src/src/ops/fixit.rs            (exec, collect_errors,        *)
(*                                            fix_errors)                  *)
(*   "bin" : src/src/bin/cargo-fixit/fixit.rs (exec, run_rustfix)          *)
(*                                                                         *)
(* The build tool is the environment: in every pass it emits a finite      *)
(* stream of decoded events, one event per step.  File reads may fail.     *)
(* Spawning the build, writing a file and writing to the terminal are      *)
(* taken to succeed (their failure aborts the run through `?`).            *)
(***************************************************************************)
EXTENDS Naturals, Sequences, FiniteSets

None == "none"

\* ------------------------------------------------------------------ bounds

\* Longest event stream of one build pass.
MaxEvents == 2

\* Longest event stream of one build pass of the patcher's world.
MaxFixEvents == 3

\* Largest value of CARGO_FIX_MAX_RETRIES the controller runs are drawn from.
MaxRetries == 2

\* Length in bytes of every source file of the working tree.
FileLen == 2

\* ------------------------------------------------------------- build units

\* (target, package): BuildUnit of ops/check.rs, (Target, String) of the bin.
Units == {"p/lib", "p/test", "q/lib"}

package_id(u) == IF u \in {"p/lib", "p/test"} THEN "p" ELSE "q"

\* ------------------------------------------------------------------- paths

\* A file name and the components std::path::Path splits it into.
PathOf(f) ==
  CASE f = "w/a.rs"    -> <<"w", "a.rs">>
    [] f = "w/b.rs"    -> <<"w", "b.rs">>
    [] f = "home/x.rs" -> <<"home", "x.rs">>
    [] f = "sys/y.rs"  -> <<"sys", "y.rs">>
    [] f = "home"      -> <<"home">>
    [] f = "sys"       -> <<"sys">>
    [] OTHER           -> <<>>

\* Path::starts_with: base's components are a prefix of path's components.
starts_with(path, base) ==
  /\ Len(PathOf(base)) <= Len(PathOf(path))
  /\ \A i \in 1..Len(PathOf(base)) : PathOf(path)[i] = PathOf(base)[i]

\* ------------------------------------------------------------- suggestions

Rep(f, lo, hi, data) == [file_name |-> f, lo |-> lo, hi |-> hi, data |-> data]

\* rustfix::Suggestion values the build tool's diagnostics carry, by name:
\* the message and the solutions, each a list of replacements.
Suggestion(s) ==
  CASE s = "sa"     -> [message |-> "m1", solutions |-> << <<Rep("w/a.rs", 0, 1, "x")>> >>]
    [] s = "sa2"    -> [message |-> "m2", solutions |-> << <<Rep("w/a.rs", 0, 1, "x")>> >>]
    [] s = "sb"     -> [message |-> "m3", solutions |-> << <<Rep("w/a.rs", 0, 1, "y")>> >>]
    [] s = "sc"     -> [message |-> "m4", solutions |-> << <<Rep("w/a.rs", 1, 2, "x")>> >>]
    [] s = "sd"     -> [message |-> "m5", solutions |-> << <<Rep("w/b.rs", 0, 1, "x")>> >>]
    [] s = "soob"   -> [message |-> "m6", solutions |-> << <<Rep("w/a.rs", 5, 6, "x")>> >>]
    [] s = "smulti" -> [message |-> "m8", solutions |->
                          << <<Rep("w/a.rs", 0, 1, "x")>>, <<Rep("w/b.rs", 0, 1, "x")>> >>]
    [] s = "szero"  -> [message |-> "m9", solutions |-> << >>]
    [] s = "shome"  -> [message |-> "m10", solutions |-> << <<Rep("home/x.rs", 0, 1, "x")>> >>]
    [] s = "ssys"   -> [message |-> "m11", solutions |-> << <<Rep("sys/y.rs", 0, 1, "x")>> >>]
    [] OTHER        -> [message |-> "", solutions |-> << >>]

RECURSIVE Flatten(_)
Flatten(ss) == IF ss = << >> THEN << >> ELSE Head(ss) \o Flatten(Tail(ss))

\* suggestion.solutions.iter().flat_map(|s| s.replacements.iter())
Replacements(s) == Flatten(Suggestion(s).solutions)

\* ... .map(|r| &r.snippet.file_name)
file_names(s) == [i \in 1..Len(Replacements(s)) |-> Replacements(s)[i].file_name]

\* A diagnostic: the suggestion it carries (None: no suggested edit), the
\* applicability of that suggestion and the rendered text (None: absent).
Diag(s, appl, rendered) == [s |-> s, appl |-> appl, rendered |-> rendered]

\* rustfix::collect_suggestions under Filter::MachineApplicableOnly, or under
\* Filter::Everything when __CARGO_FIX_YOLO is set.
collect_suggestions(d, everything) ==
  IF d.s # None /\ (d.appl = "MachineApplicable" \/ everything) THEN d.s ELSE None

\* ---------------------------------------------------- IndexMap / IndexSet

\* indexmap::IndexMap as the sequence of its (key, value) entries in insertion
\* order; indexmap::IndexSet as the sequence of its elements.
Keys(m) == {m[i].k : i \in 1..Len(m)}

Get(m, k) == m[CHOOSE i \in 1..Len(m) : m[i].k = k].v

\* map.entry(k).or_insert(v): the map with (k, v) appended when k is absent.
or_insert(m, k, v) == IF k \in Keys(m) THEN m ELSE Append(m, [k |-> k, v |-> v])

\* *map.get_mut(k) = v for a key that is present.
Put(m, k, v) == [i \in 1..Len(m) |-> IF m[i].k = k THEN [k |-> k, v |-> v] ELSE m[i]]

Range(q) == {q[i] : i \in 1..Len(q)}

\* IndexSet::insert: appended unless already an element.
insert(q, x) == IF x \in Range(q) THEN q ELSE Append(q, x)

Reverse(q) == [i \in 1..Len(q) |-> q[Len(q) + 1 - i]]

\* `let x = v;` followed by Body(x): v is computed once.
Let(v, Body(_)) == CHOOSE r \in {Body(x) : x \in {v}} : TRUE

\* ----------------------------------------------------------- rustfix

\* rustfix::replace::Data::replace_range on the sorted list `parts` of spans
\* already placed over an original of `len` bytes.
ins_point(parts, r) == Cardinality({i \in 1..Len(parts) : parts[i].lo < r.lo})

same_span(a, b) == a.lo = b.lo /\ a.hi = b.hi /\ a.data = b.data

replace_range(parts, r, len) ==
  LET ip == ins_point(parts, r)
      inc == [lo |-> r.lo, hi |-> r.hi, data |-> r.data]
  IN  IF r.lo > r.hi \/ r.hi > len
        THEN [res |-> "error", parts |-> parts]
      ELSE IF ip >= 1 /\ inc.lo < parts[ip].hi
        THEN [res |-> IF same_span(inc, parts[ip]) THEN "identical" ELSE "error",
              parts |-> parts]
      ELSE IF ip + 1 <= Len(parts)
              /\ (inc.hi > parts[ip + 1].lo
                  \/ (inc.lo = parts[ip + 1].lo /\ inc.hi = parts[ip + 1].hi))
        THEN [res |-> IF same_span(inc, parts[ip + 1]) THEN "identical" ELSE "error",
              parts |-> parts]
      ELSE [res |-> "ok",
            parts |-> SubSeq(parts, 1, ip) \o <<inc>> \o SubSeq(parts, ip + 1, Len(parts))]

RECURSIVE apply_from(_, _, _, _)
apply_from(parts, reps, i, len) ==
  IF i > Len(reps) THEN [res |-> "ok", parts |-> parts]
  ELSE Let(replace_range(parts, reps[i], len),
           LAMBDA one : IF one.res = "ok" THEN apply_from(one.parts, reps, i + 1, len)
                        ELSE one)

\* rustfix::CodeFix::apply: every replacement of every solution in order; the
\* first failure restores the spans to what they were and is the result.
apply(parts, s, len) ==
  Let(apply_from(parts, Replacements(s), 1, len),
      LAMBDA got : IF got.res = "ok" THEN got ELSE [res |-> got.res, parts |-> parts])

\* ------------------------------------------------------- patching a file

\* An element of a file's IndexSet<(Suggestion, Option<String>)>.
Pair(s, rendered) == [s |-> s, r |-> rendered]

\* The rendered texts a list of pairs carries:
\* suggestions.iter().filter_map(|(_, e)| e.clone())
Rendered(sugs) == {sugs[i].r : i \in 1..Len(sugs)} \ {None}

\* The edits of one file in the order of their discovery.
discovery_order(sugs) == sugs

\* The order in which the edits of one file are attempted: suggestions.iter().rev()
attempt_order(sugs) == Reverse(sugs)

\* A loop over a file's edits that counts an identical replacement as a fix.
apply_one_counting_identical(fx, p) ==
  Let(apply(fx.parts, p.s, FileLen),
      LAMBDA got :
        CASE got.res \in {"ok", "identical"} ->
               [fx EXCEPT !.parts = got.parts, !.modified = (@ \/ got.res = "ok"),
                          !.num_fixes = @ + 1,
                          !.tried = Append(@, [edit |-> p, res |-> got.res])]
          [] OTHER ->
               [fx EXCEPT !.errors = IF p.r = None THEN @ ELSE @ \cup {p.r},
                          !.tried = Append(@, [edit |-> p, res |-> got.res])])

\* One turn of the loop over a file's edits: the match on fixed.apply(suggestion).
\* fx is the CodeFix (its spans, whether it is modified), the fix count and the
\* unit's error set so far; tried logs the attempts in order, each with what
\* rustfix answered ("ok", "identical" for AlreadyReplaced { is_identical: true },
\* "error" for any other Err).
apply_one(fx, p) ==
  Let(apply(fx.parts, p.s, FileLen),
      LAMBDA got :
        CASE got.res = "ok" ->
               [fx EXCEPT !.parts = got.parts, !.modified = TRUE,
                          !.num_fixes = @ + 1,
                          !.tried = Append(@, [edit |-> p, res |-> got.res])]
          [] got.res = "identical" ->
               [fx EXCEPT !.tried = Append(@, [edit |-> p, res |-> got.res])]
          [] OTHER ->
               [fx EXCEPT !.errors = IF p.r = None THEN @ ELSE @ \cup {p.r},
                          !.tried = Append(@, [edit |-> p, res |-> got.res])])

\* A loop over a file's edits that ends at the first edit rustfix refuses.
RECURSIVE apply_all_until_error(_, _, _)
apply_all_until_error(fx, order, i) ==
  IF i > Len(order) THEN fx
  ELSE Let(apply_one(fx, order[i]),
           LAMBDA next : IF next.tried[Len(next.tried)].res = "error" THEN next
                         ELSE apply_all_until_error(next, order, i + 1))

RECURSIVE apply_all(_, _, _)
apply_all(fx, order, i) ==
  IF i > Len(order) THEN fx
  ELSE Let(apply_one(fx, order[i]), LAMBDA next : apply_all(next, order, i + 1))

\* CodeFix::new(&code), num_fixes = 0, then the loop over the file's edits.
patch_file(sugs, errs) ==
  apply_all([parts |-> << >>, modified |-> FALSE, num_fixes |-> 0,
             errors |-> errs, tried |-> << >>],
            attempt_order(sugs), 1)

\* A buffer that keeps the fix count of the last write of a file.
set_fixes(fs, file, n) ==
  IF file \in Keys(fs) THEN Put(fs, file, n)
  ELSE Append(fs, [k |-> file, v |-> n])

\* files.entry(file).or_default().fixes += num_fixes
add_fixes(fs, file, n) ==
  IF file \in Keys(fs) THEN Put(fs, file, Get(fs, file) + n)
  ELSE Append(fs, [k |-> file, v |-> n])

\* if fixed.modified() { write; made_changes = true; files[file].fixes += num_fixes }
write_back(st, file, fx) ==
  IF fx.modified
    THEN [st EXCEPT !.files = add_fixes(@, file, fx.num_fixes),
                    !.made_changes = TRUE,
                    !.written = Append(@, [file |-> file, fixes |-> fx.num_fixes])]
    ELSE st

\* A failed read that leaves the error set as it is.
read_failed_silently(st, e) ==
  [st EXCEPT !.unread = Append(@, [file |-> e.k, texts |-> Rendered(e.v)])]

\* Err(e) of paths::read: errors.extend(the texts of the file's edits); continue
read_failed(st, e) ==
  [st EXCEPT !.errors = @ \cup Rendered(e.v),
             !.unread = Append(@, [file |-> e.k, texts |-> Rendered(e.v)])]

\* One turn of the loop over a unit's files.  readable is the set of files whose
\* read succeeds in this pass.
patch_entry(st, e, readable) ==
  IF e.k \notin readable
    THEN read_failed(st, e)
    ELSE Let(patch_file(e.v, st.errors),
             LAMBDA fx :
               write_back([st EXCEPT !.errors = fx.errors,
                                     !.tried = Append(@, [file |-> e.k, order |-> fx.tried])],
                          e.k, fx))

RECURSIVE patch_from(_, _, _, _)
patch_from(st, file_map, i, readable) ==
  IF i > Len(file_map) THEN st
  ELSE Let(patch_entry(st, file_map[i], readable),
           LAMBDA next : patch_from(next, file_map, i + 1, readable))

\* fix_errors(files, file_map, errors), and the same loop at the end of the
\* bin's run_rustfix.  The result holds the new files and errors, made_changes,
\* the files written (in order, with the fixes counted), the attempts made and
\* the files whose read failed.
fix_errors(fs, file_map, errs, readable) ==
  patch_from([files |-> fs, errors |-> errs, made_changes |-> FALSE,
              written |-> << >>, tried |-> << >>, unread |-> << >>],
             file_map, 1, readable)

\* ------------------------------------------------------------ environments

\* What the build tool may emit is drawn from one of these bounded worlds:
\*   "ctl" : two units; an edit that applies, an edit whose span is out of
\*           range, a diagnostic without suggestion
\*   "cls" : one unit; one diagnostic per way the classifier can go
\*   "fix" : one unit; edits of two files that repeat, overlap and collide
\*   "pkg" : two units of one package and a unit of another; an edit that
\*           applies, a diagnostic without suggestion
\*   "io"  : two units; an edit that applies, a diagnostic without
\*           suggestion; lines of the stream may fail to be read
UnitsOf(w) ==
  CASE w = "ctl" -> {"p/lib", "q/lib"}
    [] w = "cls" -> {"p/lib"}
    [] w = "pkg" -> {"p/lib", "p/test", "q/lib"}
    [] w = "io"  -> {"p/lib", "q/lib"}
    [] OTHER     -> {"p/lib"}

DiagsOf(w) ==
  CASE w = "ctl" -> { Diag("sa", "MachineApplicable", "E-sa"),
                      Diag("soob", "MachineApplicable", "E-soob"),
                      Diag(None, "none", "E-plain") }
    [] w \in {"pkg", "io"} ->
                    { Diag("sa", "MachineApplicable", "E-sa"),
                      Diag(None, "none", "E-plain") }
    [] w = "cls" -> { Diag("sa", "MachineApplicable", "E-sa"),
                      Diag("sb", "MaybeIncorrect", "E-sb"),
                      Diag(None, "none", "E-plain"),
                      Diag(None, "none", None),
                      Diag("szero", "MachineApplicable", "E-szero"),
                      Diag("smulti", "MachineApplicable", "E-smulti"),
                      Diag("shome", "MachineApplicable", "E-shome"),
                      Diag("ssys", "MachineApplicable", "E-ssys") }
    [] OTHER     -> { Diag("sa", "MachineApplicable", "E-sa"),
                      Diag("sa", "MachineApplicable", None),
                      Diag("sa2", "MachineApplicable", "E-sa2"),
                      Diag("sb", "MachineApplicable", "E-sb"),
                      Diag("sc", "MachineApplicable", "E-sc"),
                      Diag("sd", "MachineApplicable", "E-sd") }

\* The files of the working tree a unit's edits may name, and every file.
\* The longest stream of the world.
EventsOf(w) == IF w = "fix" THEN MaxFixEvents ELSE MaxEvents

WorkFiles == {"w/a.rs", "w/b.rs"}

AllFiles == WorkFiles \cup {"home/x.rs", "sys/y.rs"}

\* ------------------------------------------------------------------- state

VARIABLES
  \* the run's configuration, fixed at the start
  world,            \* which bounded world the build tool draws from
  impl,             \* "ops" or "bin"
  max_iterations,   \* CARGO_FIX_MAX_RETRIES as exec parses it
  cargo_home,       \* CARGO_HOME, None when unset
  sysroot,          \* get_sysroot(), None when unknown
  yolo,             \* whether __CARGO_FIX_YOLO is set
  \* exec's locals
  files, iteration, last_errors, current_target, seen,
  \* one pass: collect_errors' (run_rustfix's) locals
  errors, build_unit_map, file_map, made_changes,
  \* control: where exec stands, and the events consumed in this pass
  pc, events,
  \* the terminal: shell::status, shell::fixed and the error text printed
  out_status, out_fixed, out_errors,
  \* observation of the run (no code reads these)
  passes,           \* build passes started
  reported,         \* units a message or a non-fresh artifact has named
  classified,       \* this pass: how each message was classified
  discovered,       \* this pass: the accepted edits, in stream order
  tried,            \* this pass: the edits attempted, per file, in order
  unread,           \* this pass: the files whose read failed, with their texts
  observed,         \* this pass: the units reported, in the order of the stream
  applied,          \* per file, the edits that applied in passes that wrote it
  written,          \* this pass: the files written, with unit and current unit
  finalized,        \* this pass: the units done with, and on which path
  write_passes,     \* per unit, the passes that wrote one of its files
  multi_file_texts, \* the texts of the multi-file suggestions met so far
  exit              \* where the loop was left: None, "cap" (98) or "end"

config == <<world, impl, max_iterations, cargo_home, sysroot, yolo>>
locals == <<files, iteration, last_errors, current_target, seen>>
pass   == <<errors, build_unit_map, file_map, made_changes>>
term   == <<out_status, out_fixed, out_errors>>
obs    == <<passes, reported, classified, discovered, tried, unread, observed,
            written, finalized, write_passes, applied, multi_file_texts, exit>>
vars   == <<config, locals, pass, pc, events, term, obs>>

\* An IndexMap<BuildUnit, IndexSet<String>> as the function from each unit to
\* the set of its texts (an absent key and an empty set print the same).
NoErrors == [u \in Units |-> {}]

\* exec, up to the loop: src/ops/fixit.rs 50-60, bin 44-55.
InitLocals ==
  /\ files = << >>
  /\ iteration = 0
  /\ last_errors = IF impl = "ops" THEN NoErrors ELSE {}
  /\ current_target = None
  /\ seen = {}
  /\ errors = IF impl = "ops" THEN NoErrors ELSE {}
  /\ build_unit_map = << >>
  /\ file_map = << >>
  /\ made_changes = FALSE
  /\ pc = "check"
  /\ events = 0
  /\ out_status = << >>
  /\ out_fixed = << >>
  /\ out_errors = {}
  /\ passes = 0
  /\ reported = {}
  /\ classified = << >>
  /\ discovered = << >>
  /\ tried = << >>
  /\ unread = << >>
  /\ observed = << >>
  /\ applied = [f \in AllFiles |-> 0]
  /\ written = << >>
  /\ finalized = << >>
  /\ write_passes = [u \in Units |-> 0]
  /\ multi_file_texts = {}
  /\ exit = None

InitCtl ==
  /\ world = "ctl"
  /\ impl \in {"ops", "bin"}
  /\ max_iterations \in 0..MaxRetries
  /\ cargo_home = "home"
  /\ sysroot = "sys"
  /\ yolo = FALSE
  /\ InitLocals

InitCls ==
  /\ world = "cls"
  /\ impl \in {"ops", "bin"}
  /\ max_iterations \in {0, 2}
  /\ cargo_home \in {None, "home"}
  /\ sysroot \in {None, "sys"}
  /\ yolo \in BOOLEAN
  /\ InitLocals

InitFix ==
  /\ world = "fix"
  /\ impl \in {"ops", "bin"}
  /\ max_iterations \in {0, 2}
  /\ cargo_home = "home"
  /\ sysroot = "sys"
  /\ yolo = FALSE
  /\ InitLocals

InitPkg ==
  /\ world = "pkg"
  /\ impl \in {"ops", "bin"}
  /\ max_iterations \in {0, 2}
  /\ cargo_home = "home"
  /\ sysroot = "sys"
  /\ yolo = FALSE
  /\ InitLocals

InitIo ==
  /\ world = "io"
  /\ impl \in {"ops", "bin"}
  /\ max_iterations \in {0, 2}
  /\ cargo_home = "home"
  /\ sysroot = "sys"
  /\ yolo = FALSE
  /\ InitLocals

Init == InitCtl \/ InitCls \/ InitFix \/ InitPkg \/ InitIo

\* ------------------------------------------------------- the build pass

\* The head of the loop: check(&args) of ops, the spawn in run_rustfix of the
\* bin.  The pass starts with empty maps.
BeginPass ==
  /\ pc = "check"
  /\ pc' = "collect"
  /\ events' = 0
  /\ errors' = IF impl = "ops" THEN NoErrors ELSE {}
  /\ build_unit_map' = << >>
  /\ file_map' = << >>
  /\ made_changes' = FALSE
  /\ passes' = passes + 1
  /\ classified' = << >>
  /\ discovered' = << >>
  /\ tried' = << >>
  /\ unread' = << >>
  /\ written' = << >>
  /\ finalized' = << >>
  /\ observed' = << >>
  /\ UNCHANGED <<config, locals, term, reported, write_passes, applied,
                 multi_file_texts, exit>>

\* Whether the path lies under a directory that is set.
under(f, dir) == dir # None /\ starts_with(f, dir)

\* A classifier that takes every suggestion to name one file.
names_one_file(s) == FALSE

\* !file_names.all(|f| f == file_name), file_name being the first of them.
changes_multiple_files(s) ==
  \E i \in 2..Len(file_names(s)) : file_names(s)[i] # file_names(s)[1]

\* collect_errors, from collect_suggestions to the insertion into file_map:
\* the branch a diagnostic of a unit not yet seen takes.
classify(d) ==
  LET s == collect_suggestions(d, yolo)
  IN  IF s = None THEN "no_suggestion"
      ELSE IF Len(file_names(s)) = 0 THEN "no_solutions"
      ELSE IF changes_multiple_files(s) THEN "multiple_files"
      ELSE IF under(file_names(s)[1], cargo_home) THEN "cargo_home"
      ELSE IF under(file_names(s)[1], sysroot) THEN "sysroot"
      ELSE "accepted"

\* The branches that end in errors.insert(rendered).
Rejections == {"no_suggestion", "no_solutions", "multiple_files"}

\* if let Some(rendered) = diagnostic.rendered { errors.insert(rendered); }
insert_rendered(errs, d) == IF d.rendered = None THEN errs ELSE errs \cup {d.rendered}

\* file_map.entry(file_name).or_insert_with(IndexSet::new).insert((suggestion, rendered))
add_edit(fm, file, p) ==
  LET m == or_insert(fm, file, << >>) IN Put(m, file, insert(Get(m, file), p))

\* build_unit_map with the edit added to the file map of unit u.
add_unit_edit(bum, u, file, p) ==
  LET m == or_insert(bum, u, << >>) IN Put(m, u, add_edit(Get(m, u), file, p))

\* A classifier that consults no seen set.
never_seen(u) == FALSE

\* seen.contains(&build_unit): collect_errors 229, run_rustfix 167.
already_seen(u) == u \in seen

\* The units of the pass, in the order of the stream, with u reported.
observe(u) == IF u \in Range(observed) THEN observed ELSE Append(observed, u)

\* What the run's observation keeps of a classified message.
log_classified(u, d, c) == Append(classified, [unit |-> u, diag |-> d, as |-> c])

log_discovered(u, d, c) ==
  IF c = "accepted"
    THEN Append(discovered,
                [unit |-> u, file |-> file_names(collect_suggestions(d, yolo))[1],
                 edit |-> Pair(collect_suggestions(d, yolo), d.rendered)])
    ELSE discovered

log_multi_file(u, d, c) ==
  IF c = "multiple_files" /\ d.rendered # None
    THEN multi_file_texts \cup {[unit |-> u, text |-> d.rendered]}
    ELSE multi_file_texts

\* One CheckOutput::Message of the stream through the body of collect_errors' loop.
OpsMessage(u, d) ==
  /\ pc \in {"collect", "cut"} /\ impl = "ops" /\ events < EventsOf(world)
  /\ events' = events + 1
  /\ reported' = IF pc = "cut" THEN reported ELSE reported \cup {u}
  /\ observed' = IF pc = "cut" THEN observed ELSE observe(u)
  /\ LET c == IF pc = "cut" THEN "dropped"
              ELSE IF already_seen(u) THEN "seen" ELSE classify(d)
         s == collect_suggestions(d, yolo)
     IN  /\ classified' = log_classified(u, d, c)
         /\ discovered' = log_discovered(u, d, c)
         /\ multi_file_texts' = log_multi_file(u, d, c)
         /\ errors' = IF c \in Rejections
                        THEN [errors EXCEPT ![u] = insert_rendered(@, d)]
                        ELSE errors
         /\ build_unit_map' =
              CASE c \in {"seen", "dropped"} -> build_unit_map
                [] c = "accepted" -> add_unit_edit(build_unit_map, u, file_names(s)[1],
                                                   Pair(s, d.rendered))
                [] OTHER          -> or_insert(build_unit_map, u, << >>)
  /\ UNCHANGED <<config, locals, file_map, made_changes, pc, term,
                 passes, tried, unread, written, finalized, write_passes, applied, exit>>

\* One CheckOutput::Artifact of the stream.
OpsArtifact(u, fresh) ==
  /\ pc = "collect" /\ impl = "ops" /\ events < EventsOf(world)
  /\ events' = events + 1
  /\ reported' = IF fresh THEN reported ELSE reported \cup {u}
  /\ observed' = IF fresh THEN observed ELSE observe(u)
  /\ build_unit_map' = IF u \notin seen /\ ~fresh
                         THEN or_insert(build_unit_map, u, << >>)
                         ELSE build_unit_map
  /\ UNCHANGED <<config, locals, errors, file_map, made_changes, pc, term,
                 passes, classified, discovered, tried, unread, written, finalized,
                 write_passes, applied, multi_file_texts, exit>>

\* The build command has exited: the stream ends, at any length.
EndOfStream ==
  /\ pc \in {"collect", "cut"}
  /\ pc' = IF impl = "ops" THEN "cap" ELSE "fix"
  /\ UNCHANGED <<config, locals, pass, events, term, obs>>

\* ------------------------------------------------------------ the terminal

\* An announcement made at every finalization.
status_always(out, u) == Append(out, package_id(u))

\* if seen.iter().all(|b| b.package_id != target.package_id) { shell::status("Checking", ..) }
status(out, u) ==
  IF \A b \in seen : package_id(b) # package_id(u) THEN Append(out, package_id(u)) ELSE out

\* A reporter that is handed no fix count.
fixed_nothing(out, fs) == out

\* for (name, file) in files { shell::fixed(name, file.fixes) }
fixed(out, fs) == out \o [i \in 1..Len(fs) |-> [name |-> fs[i].k, fixes |-> fs[i].v]]

\* A printer that prints no text.
print_nothing(out, u, errs) == out

\* for e in errors { shell::print_ansi_stderr(..) }: the texts printed, with the
\* unit whose error set they come from (None in the bin, which keeps one set).
print_errors(out, u, errs) == out \cup {[unit |-> u, text |-> e] : e \in errs}

\* ------------------------------------------------ exec of src/ops/fixit.rs

\* A finalization at the cap that prints the unit's error set alone.
no_edit_texts(bum, u) == {}

\* The rendered texts of every edit build_unit_map holds for the unit (82-89).
unit_edit_texts(bum, u) ==
  IF u \in Keys(bum)
    THEN UNION {Rendered(Get(bum, u)[i].v) : i \in 1..Len(Get(bum, u))}
    ELSE {}

\* A loop without a cap, and a loop whose cap is one pass late.
cap_never_reached(n) == FALSE

cap_exceeded(n) == n > max_iterations

\* iteration >= max_iterations
cap_reached(n) == n >= max_iterations

\* 69: the cap is not reached.
OpsBelowCap ==
  /\ pc = "cap" /\ ~cap_reached(iteration)
  /\ pc' = "units"
  /\ UNCHANGED <<config, locals, pass, events, term, obs>>

\* 69-96: the cap is reached with a current unit, which is finalized.
OpsFinalizeAtCap ==
  /\ pc = "cap" /\ cap_reached(iteration) /\ current_target # None
  /\ out_status' = status(out_status, current_target)
  /\ out_fixed' = fixed(out_fixed, files)
  /\ files' = << >>
  /\ out_errors' = print_errors(out_errors, current_target,
                                errors[current_target]
                                  \cup unit_edit_texts(build_unit_map, current_target))
  /\ errors' = [errors EXCEPT ![current_target] = {}]
  /\ seen' = seen \cup {current_target}
  /\ current_target' = None
  /\ iteration' = 0
  /\ pc' = "units"
  /\ finalized' = Append(finalized, [unit |-> current_target, by |-> "cap"])
  /\ UNCHANGED <<config, last_errors, build_unit_map, file_map, made_changes, events,
                 passes, reported, observed, classified, discovered, tried, unread, written,
                 write_passes, applied, multi_file_texts, exit>>

\* 97-99: the cap is reached with no current unit: break.
OpsBreakAtCap ==
  /\ pc = "cap" /\ cap_reached(iteration) /\ current_target = None
  /\ pc' = "report"
  /\ exit' = "cap"
  /\ UNCHANGED <<config, locals, pass, events, term,
                 passes, reported, observed, classified, discovered, tried, unread, written, finalized,
                 write_passes, applied, multi_file_texts>>

\* The outcomes of paths::read over the files: in the world "fix" any read of
\* a file of the working tree may fail, elsewhere every read succeeds.
ReadOutcomes == IF world = "fix" THEN SUBSET WorkFiles ELSE {AllFiles}

\* The files written by a call of fix_errors, as the run's observation keeps
\* them: the units whose edits the file's list held, and the current unit.
writes_of(res, units, cur) ==
  [i \in 1..Len(res.written) |->
     [units |-> units[res.written[i].file], file |-> res.written[i].file,
      fixes |-> res.written[i].fixes, current |-> cur]]

\* The attempts made by a call of fix_errors, with the unit they were made for.
attempts_of(res, u) ==
  [i \in 1..Len(res.tried) |->
     [unit |-> u, file |-> res.tried[i].file, order |-> res.tried[i].order]]

\* The files a call of fix_errors could not read, with the unit they are of.
failures_of(res, u) ==
  [i \in 1..Len(res.unread) |->
     [unit |-> u, file |-> res.unread[i].file, texts |-> res.unread[i].texts]]

\* The edits rustfix answered Ok(()) to among the attempts made on the file.
applied_to(ts, f) ==
  LET t == ts[CHOOSE k \in 1..Len(ts) : ts[k].file = f]
  IN  Cardinality({j \in 1..Len(t.order) : t.order[j].res = "ok"})

\* The edits that applied in a call of fix_errors, added up per file written.
RECURSIVE count_applied(_, _, _)
count_applied(ap, res, i) ==
  IF i > Len(res.written) THEN ap
  ELSE count_applied([ap EXCEPT ![res.written[i].file] =
                                   @ + applied_to(res.tried, res.written[i].file)],
                     res, i + 1)

count_pass(wp, u, res) == IF Len(res.written) > 0 THEN [wp EXCEPT ![u] = @ + 1] ELSE wp

\* Option::get_or_insert
get_or_insert(cur, u) == IF cur = None THEN u ELSE cur

\* A loop that takes every unit for the current one.
always_current(cur, u) == TRUE

\* current_target.get_or_insert(build_unit.clone()) == &build_unit
is_current(cur, u) == get_or_insert(cur, u) = u

\* 104: the loop over build_unit_map has come to its end.
OpsUnitsDone ==
  /\ pc = "units" /\ build_unit_map = << >>
  /\ pc' = "end"
  /\ UNCHANGED <<config, locals, pass, events, term, obs>>

\* 105-107: a unit already seen is passed over.
OpsSkipSeen ==
  /\ pc = "units" /\ build_unit_map # << >>
  /\ Head(build_unit_map).k \in seen
  /\ build_unit_map' = Tail(build_unit_map)
  /\ UNCHANGED <<config, locals, errors, file_map, made_changes, pc, events, term, obs>>

\* 113-122: no unit is current and the unit has no edit: it is done with.
OpsFinalizeEmpty ==
  /\ pc = "units" /\ build_unit_map # << >>
  /\ LET u == Head(build_unit_map).k
     IN  /\ u \notin seen
         /\ current_target = None /\ Head(build_unit_map).v = << >>
         /\ out_status' = status(out_status, u)
         /\ out_errors' = print_errors(out_errors, u, errors[u])
         /\ errors' = [errors EXCEPT ![u] = {}]
         /\ seen' = seen \cup {u}
         /\ finalized' = Append(finalized, [unit |-> u, by |-> "empty"])
  /\ build_unit_map' = Tail(build_unit_map)
  /\ UNCHANGED <<config, files, iteration, last_errors, current_target, file_map,
                 made_changes, pc, events, out_fixed,
                 passes, reported, observed, classified, discovered, tried, unread, written,
                 write_passes, applied, multi_file_texts, exit>>

\* 123-129: the unit has edits and is, or becomes, the current unit: its files
\* are patched; a change ends the loop.
OpsFixUnit ==
  /\ pc = "units" /\ build_unit_map # << >>
  /\ LET u == Head(build_unit_map).k
         fm == Head(build_unit_map).v
     IN  /\ u \notin seen
         /\ ~(current_target = None /\ fm = << >>)
         /\ fm # << >>
         /\ is_current(current_target, u)
         /\ current_target' = get_or_insert(current_target, u)
         /\ \E readable \in ReadOutcomes :
              \E res \in {fix_errors(files, fm, errors[u], readable)} :
                  /\ files' = res.files
                  /\ errors' = [errors EXCEPT ![u] = res.errors]
                  /\ made_changes' = res.made_changes
                  /\ build_unit_map' = IF res.made_changes THEN << >>
                                       ELSE Tail(build_unit_map)
                  /\ pc' = IF res.made_changes THEN "end" ELSE "units"
                  /\ tried' = tried \o attempts_of(res, u)
                  /\ unread' = unread \o failures_of(res, u)
                  /\ applied' = count_applied(applied, res, 1)
                  /\ written' = written \o writes_of(res, [f \in AllFiles |-> {u}],
                                                     current_target')
                  /\ write_passes' = count_pass(write_passes, u, res)
  /\ UNCHANGED <<config, iteration, last_errors, seen, file_map, events, term,
                 passes, reported, observed, classified, discovered, finalized,
                 multi_file_texts, exit>>

\* 113-129, neither branch taken: the unit has no edit while a unit is current,
\* or has edits while another unit is (get_or_insert leaves the current unit).
OpsLeaveUnit ==
  /\ pc = "units" /\ build_unit_map # << >>
  /\ LET u == Head(build_unit_map).k
         fm == Head(build_unit_map).v
     IN  /\ u \notin seen
         /\ ~(current_target = None /\ fm = << >>)
         /\ fm = << >> \/ ~is_current(current_target, u)
  /\ build_unit_map' = Tail(build_unit_map)
  /\ UNCHANGED <<config, locals, errors, file_map, made_changes, pc, events, term, obs>>

\* 135-137 and 138 with made_changes: the loop goes round again.
OpsContinue ==
  /\ pc = "end" /\ impl = "ops" /\ made_changes
  /\ last_errors' = errors
  /\ iteration' = iteration + 1
  /\ pc' = "check"
  /\ UNCHANGED <<config, files, current_target, seen, pass, events, term, obs>>

\* 135-156: nothing changed and a unit is current: it is finalized.
OpsFinalizeUnchanged ==
  /\ pc = "end" /\ impl = "ops" /\ ~made_changes /\ current_target # None
  /\ out_status' = status(out_status, current_target)
  /\ out_fixed' = fixed(out_fixed, files)
  /\ files' = << >>
  /\ out_errors' = print_errors(out_errors, current_target, errors[current_target])
  /\ last_errors' = [errors EXCEPT ![current_target] = {}]
  /\ seen' = seen \cup {current_target}
  /\ current_target' = None
  /\ iteration' = 0
  /\ pc' = "check"
  /\ finalized' = Append(finalized, [unit |-> current_target, by |-> "unchanged"])
  /\ UNCHANGED <<config, pass, events,
                 passes, reported, observed, classified, discovered, tried, unread, written,
                 write_passes, applied, multi_file_texts, exit>>

\* 135-137 and 157-159: nothing changed and no unit is current: break.
OpsBreak ==
  /\ pc = "end" /\ impl = "ops" /\ ~made_changes /\ current_target = None
  /\ last_errors' = errors
  /\ iteration' = iteration + 1
  /\ pc' = "report"
  /\ exit' = "end"
  /\ UNCHANGED <<config, files, current_target, seen, pass, events, term,
                 passes, reported, observed, classified, discovered, tried, unread, written, finalized,
                 write_passes, applied, multi_file_texts>>

\* 163-171: after the loop, the fix counts and the last pass's errors are printed.
OpsReport ==
  /\ pc = "report" /\ impl = "ops"
  /\ out_fixed' = fixed(out_fixed, files)
  /\ out_errors' = UNION ({out_errors} \cup
                            {print_errors({}, u, last_errors[u]) : u \in Units})
  /\ pc' = "done"
  /\ UNCHANGED <<config, locals, pass, events, out_status, obs>>

\* ------------------------------------- src/bin/cargo-fixit/fixit.rs

\* run_rustfix 125-186: the branch a decoded message takes.  There is no
\* check against the sysroot here.
bin_classify(u, d) ==
  LET s == collect_suggestions(d, yolo)
  IN  IF s = None THEN "no_suggestion"
      ELSE IF Len(file_names(s)) = 0 THEN "no_solutions"
      ELSE IF changes_multiple_files(s) THEN "multiple_files"
      ELSE IF under(file_names(s)[1], cargo_home) THEN "cargo_home"
      ELSE IF already_seen(u) THEN "seen"
      ELSE IF is_current(current_target, u) THEN "accepted"
      ELSE "not_current"

\* One decoded CheckMessage of the stream through the body of run_rustfix's loop.
BinMessage(u, d) ==
  /\ pc = "collect" /\ impl = "bin" /\ events < EventsOf(world)
  /\ events' = events + 1
  /\ reported' = reported \cup {u}
  /\ observed' = observe(u)
  /\ LET c == bin_classify(u, d)
         s == collect_suggestions(d, yolo)
     IN  /\ classified' = log_classified(u, d, c)
         /\ discovered' = log_discovered(u, d, c)
         /\ multi_file_texts' = log_multi_file(u, d, c)
         /\ errors' = IF c \in Rejections \cup {"seen"}
                        THEN insert_rendered(errors, d) ELSE errors
         /\ current_target' = IF c \in {"accepted", "not_current"}
                                THEN get_or_insert(current_target, u)
                                ELSE current_target
         /\ file_map' = IF c = "accepted"
                          THEN add_edit(file_map, file_names(s)[1], Pair(s, d.rendered))
                          ELSE file_map
  /\ UNCHANGED <<config, files, iteration, last_errors, seen, build_unit_map,
                 made_changes, pc, term, passes, tried, unread, written, finalized,
                 write_passes, applied, exit>>

\* The lines of the stream that are not events: "undecodable" is text that
\* does not parse as an event, "unreadable" is a line whose read fails
\* (bytes that are not UTF-8).
LinesOf(w) == IF w = "io" THEN {"undecodable", "unreadable"} ELSE {"undecodable"}

\* 185-192: lines().map_while(|l| l.ok()) ends the stream at the first line
\* that cannot be read; filter_map(from_str(..).ok()) skips a line that
\* does not parse.  The lines after the cut are still written by the build
\* (pc = "cut") but never reach the loop.
OpsOddLine(kind) ==
  /\ pc = "collect" /\ impl = "ops" /\ events < EventsOf(world)
  /\ kind \in LinesOf(world)
  /\ events' = events + 1
  /\ pc' = IF kind = "unreadable" THEN "cut" ELSE pc
  /\ UNCHANGED <<config, locals, pass, term, obs>>

\* 110-118: from_str(&line?) returns the read error of a line to the caller
\* of run_rustfix, which ends exec with that error; a line that does not
\* parse as a CheckMessage is skipped (continue).
BinOddLine(kind) ==
  /\ pc = "collect" /\ impl = "bin" /\ events < EventsOf(world)
  /\ kind \in LinesOf(world)
  /\ events' = events + 1
  /\ pc' = IF kind = "unreadable" THEN "aborted" ELSE pc
  /\ exit' = IF kind = "unreadable" THEN "abort" ELSE exit
  /\ UNCHANGED <<config, locals, pass, out_status, out_fixed, out_errors,
                 classified, discovered, tried, unread, written, finalized,
                 write_passes, applied, passes, reported, observed,
                 multi_file_texts>>

\* The units whose edits, as discovered in this pass, name the file.
units_of_file(f) == {discovered[i].unit : i \in {j \in 1..Len(discovered) : discovered[j].file = f}}

\* run_rustfix 189-227: the files of file_map are patched.
BinFix ==
  /\ pc = "fix"
  /\ \E readable \in ReadOutcomes :
       \E res \in {fix_errors(files, file_map, errors, readable)} :
           /\ files' = res.files
           /\ errors' = res.errors
           /\ made_changes' = res.made_changes
           /\ tried' = tried \o attempts_of(res, current_target)
           /\ unread' = unread \o failures_of(res, current_target)
           /\ applied' = count_applied(applied, res, 1)
           /\ written' = written \o writes_of(res, [f \in AllFiles |-> units_of_file(f)],
                                              current_target)
           /\ write_passes' = IF current_target = None THEN write_passes
                              ELSE count_pass(write_passes, current_target, res)
  /\ file_map' = << >>
  /\ pc' = "end"
  /\ UNCHANGED <<config, iteration, last_errors, current_target, seen, build_unit_map,
                 events, term, passes, reported, observed, classified, discovered, finalized,
                 multi_file_texts, exit>>

\* exec 64-67: the loop goes round again with the same unit.
BinContinue ==
  /\ pc = "end" /\ impl = "bin"
  /\ made_changes /\ ~cap_reached(iteration + 1)
  /\ last_errors' = errors
  /\ iteration' = iteration + 1
  /\ pc' = "check"
  /\ UNCHANGED <<config, files, current_target, seen, pass, events, term, obs>>

\* exec 64-71: nothing changed, or the cap is reached: the current unit is done with.
BinFinalize ==
  /\ pc = "end" /\ impl = "bin"
  /\ ~made_changes \/ cap_reached(iteration + 1)
  /\ current_target # None
  /\ last_errors' = errors
  /\ seen' = seen \cup {current_target}
  /\ current_target' = None
  /\ iteration' = 0
  /\ pc' = "check"
  /\ finalized' = Append(finalized,
                         [unit |-> current_target,
                          by |-> IF made_changes THEN "cap" ELSE "unchanged"])
  /\ UNCHANGED <<config, files, pass, events, term,
                 passes, reported, observed, classified, discovered, tried, unread, written,
                 write_passes, applied, multi_file_texts, exit>>

\* exec 64-74: nothing changed, or the cap is reached, and no unit is current: break.
BinBreak ==
  /\ pc = "end" /\ impl = "bin"
  /\ ~made_changes \/ cap_reached(iteration + 1)
  /\ current_target = None
  /\ last_errors' = errors
  /\ iteration' = iteration + 1
  /\ pc' = "report"
  /\ exit' = "end"
  /\ UNCHANGED <<config, files, current_target, seen, pass, events, term,
                 passes, reported, observed, classified, discovered, tried, unread, written, finalized,
                 write_passes, applied, multi_file_texts>>

\* exec 77-85: after the loop, the fix counts and the last pass's errors are printed.
BinReport ==
  /\ pc = "report" /\ impl = "bin"
  /\ out_fixed' = fixed(out_fixed, files)
  /\ out_errors' = print_errors(out_errors, None, last_errors)
  /\ pc' = "done"
  /\ UNCHANGED <<config, locals, pass, events, out_status, obs>>

\* ------------------------------------------------------- specification

Event ==
  \E u \in UnitsOf(world) :
    \/ \E d \in DiagsOf(world) : OpsMessage(u, d)
    \/ \E fresh \in BOOLEAN : OpsArtifact(u, fresh)
    \/ \E d \in DiagsOf(world) : BinMessage(u, d)

Next ==
  \/ BeginPass
  \/ Event
  \/ \E kind \in {"undecodable", "unreadable"} : OpsOddLine(kind)
  \/ \E kind \in {"undecodable", "unreadable"} : BinOddLine(kind)
  \/ EndOfStream
  \/ OpsBelowCap
  \/ OpsFinalizeAtCap
  \/ OpsBreakAtCap
  \/ OpsUnitsDone
  \/ OpsSkipSeen
  \/ OpsFinalizeEmpty
  \/ OpsFixUnit
  \/ OpsLeaveUnit
  \/ OpsContinue
  \/ OpsFinalizeUnchanged
  \/ OpsBreak
  \/ OpsReport
  \/ BinFix
  \/ BinContinue
  \/ BinFinalize
  \/ BinBreak
  \/ BinReport

\* Every world.
Spec == Init /\ [][Next]_vars

\* The controller: two units, caps 0..MaxRetries.
SpecCtl == InitCtl /\ [][Next]_vars

\* The classifier: every kind of diagnostic, CARGO_HOME and the sysroot set or not.
SpecCls == InitCls /\ [][Next]_vars

\* The patcher: one unit, edits that repeat and collide, reads that fail.
SpecFix == InitFix /\ [][Next]_vars

\* The packages: three units of two packages.
SpecPkg == InitPkg /\ [][Next]_vars

\* The stream whose lines may fail to be read.
SpecIo == InitIo /\ [][Next]_vars

\* The controller under weak fairness: the run is never suspended for ever
\* (the build exits, exec goes on to its next statement).
LiveCtl == InitCtl /\ [][Next]_vars /\ WF_vars(Next)

\* ------------------------------------------------------------ properties

\* The entries a step appends to a log of the pass.
NewEntries(q, r) == {r[i] : i \in (Len(q) + 1)..Len(r)}

\* The error set of the pass that holds the texts of unit u.
errors_of(u) == IF impl = "ops" THEN errors[u] ELSE errors

\* The text was printed: for the unit in src/ops, which prints per unit, and
\* from the one error set of the bin.
printed(u, text) == [unit |-> IF impl = "ops" THEN u ELSE None, text |-> text] \in out_errors

\* C1: a unit put into seen stays there; no unit in seen is the current unit,
\* no edit of a unit in seen is collected into a file map, and no file is
\* written for a unit in seen, however often the build reports it again.
C1_SeenIsFinal ==
  [][ /\ seen \subseteq seen'
      /\ current_target' \notin seen'
      /\ \A e \in NewEntries(discovered, discovered') : e.unit \notin seen
      /\ \A a \in NewEntries(tried, tried') : a.unit \notin seen
      /\ \A w \in NewEntries(written, written') : w.units \cap seen = {} ]_vars

\* A unit already seen is reported again with a diagnostic that carries a
\* machine-applicable suggestion.
C1_Witness ==
  \E i \in 1..Len(classified) :
    /\ classified[i].as = "seen"
    /\ classified[i].unit \in seen
    /\ collect_suggestions(classified[i].diag, yolo) # None

\* C2: the files written in one pass all hold edits of one unit only, and
\* that unit is the current unit when the file is written.
C2_OneUnitWritten ==
  \A i \in 1..Len(written) :
    /\ written[i].current # None
    /\ written[i].units = {written[i].current}
    /\ written[i].current = written[1].current

\* A pass finalizes one unit at the cap with an edit of it collected, then
\* selects the next unit and writes a file for it.
C2_Witness ==
  /\ written # << >>
  /\ \E i \in 1..Len(finalized), j \in 1..Len(discovered) :
       /\ finalized[i].by = "cap"
       /\ finalized[i].unit # written[1].current
       /\ discovered[j].unit = finalized[i].unit

\* (retry cap + 1) times the number of distinct units reported in the run.
PassBound == (max_iterations + 1) * Cardinality(reported)

\* C3, as stated: the run that is done has taken at most PassBound passes.
C3_AsStated == pc = "done" => passes <= PassBound

\* C3, amended: every run reaches Done, and takes at most PassBound passes
\* and one more (the pass that finds nothing left to do).
C3_Terminates == [](passes <= PassBound + 1) /\ <>(pc = "done")

\* A run over two units that is done after PassBound + 1 passes.
C3_Witness == pc = "done" /\ Cardinality(reported) = 2 /\ passes = PassBound + 1

\* C4: in src/ops no unit has files written in more passes than the cap, and
\* the loop over the units, where files are patched, is entered only with the
\* iteration counter below the cap.
C4_WritePassesWithinCap ==
  impl = "ops" =>
    /\ \A u \in Units : write_passes[u] <= max_iterations
    /\ pc = "units" => iteration < max_iterations

\* A unit is finalized at the cap after as many writing passes as the largest cap.
C4_Witness ==
  /\ impl = "ops" /\ max_iterations = MaxRetries
  /\ \E i \in 1..Len(finalized) :
       /\ finalized[i].by = "cap"
       /\ write_passes[finalized[i].unit] = max_iterations

\* C5: the pass of src/ops that finalizes a unit at the cap writes no file for
\* it and has printed the text of every edit and of every rejected diagnostic
\* it collected for the unit; with cap 1 no unit has files written in more
\* than one pass; the bin's last pass prints the text of every diagnostic it
\* met for a unit already seen.
C5_CapFinalization ==
  /\ impl = "ops" =>
       \A i \in 1..Len(finalized) :
         finalized[i].by = "cap" =>
           /\ \A j \in 1..Len(written) : finalized[i].unit \notin written[j].units
           /\ \A j \in 1..Len(tried) : tried[j].unit # finalized[i].unit
           /\ \A j \in 1..Len(discovered) :
                discovered[j].unit = finalized[i].unit /\ discovered[j].edit.r # None
                  => printed(finalized[i].unit, discovered[j].edit.r)
           /\ \A j \in 1..Len(classified) :
                /\ classified[j].unit = finalized[i].unit
                /\ classified[j].as \in Rejections
                /\ classified[j].diag.rendered # None
                => printed(finalized[i].unit, classified[j].diag.rendered)
  /\ max_iterations = 1 => \A u \in Units : write_passes[u] <= 1
  /\ impl = "bin" /\ pc = "done" =>
       \A j \in 1..Len(classified) :
         classified[j].as = "seen" /\ classified[j].diag.rendered # None
           => printed(classified[j].unit, classified[j].diag.rendered)

\* Cap 1: one fix was applied to the unit, the next pass reports another
\* edit for it, finalizes the unit at the cap and prints that edit's text.
C5_Witness ==
  /\ impl = "ops" /\ max_iterations = 1
  /\ \E i \in 1..Len(finalized), j \in 1..Len(discovered) :
       /\ finalized[i].by = "cap"
       /\ write_passes[finalized[i].unit] = 1
       /\ out_fixed = <<[name |-> "w/a.rs", fixes |-> 1]>>
       /\ discovered[j].unit = finalized[i].unit
       /\ discovered[j].edit.r = "E-soob"
       /\ printed(finalized[i].unit, "E-soob")

\* The number of attempts of a file that rustfix answered with res.
answered(a, res) == Cardinality({j \in 1..Len(a.order) : a.order[j].res = res})

\* C6: for every file patched in a pass, the fixes counted are the edits
\* that applied, an identical replacement adds no text to the error set, the
\* file is written if and only if an edit applied, and the pass made changes
\* if and only if it wrote a file.
C6_IdenticalIsNoOp ==
  /\ \A i \in 1..Len(tried) :
       /\ answered(tried[i], "ok") >= 1
            <=> \E j \in 1..Len(written) : written[j].file = tried[i].file
       /\ \A j \in 1..Len(written) :
            written[j].file = tried[i].file => written[j].fixes = answered(tried[i], "ok")
       /\ \A j \in 1..Len(tried[i].order) :
            tried[i].order[j].res = "identical" /\ tried[i].order[j].edit.r # None
              => tried[i].order[j].edit.r \notin errors_of(tried[i].unit)
  /\ \A j \in 1..Len(written) : \E i \in 1..Len(tried) : tried[i].file = written[j].file
  /\ made_changes <=> written # << >>

\* A file is patched in a pass in which one edit applies and another, which
\* carries text, is an identical replacement.
C6_Witness ==
  \E i \in 1..Len(tried) :
    /\ answered(tried[i], "ok") = 1
    /\ \E j \in 1..Len(tried[i].order) :
         tried[i].order[j].res = "identical" /\ tried[i].order[j].edit.r # None

\* The replacements of the suggestion, over all of its solutions, name two
\* or more distinct files.
names_several_files(s) ==
  Cardinality({Replacements(s)[i].file_name : i \in 1..Len(Replacements(s))}) >= 2

\* Never applied: no suggestion that names more than one file is collected
\* into a file map or attempted on a file, and no file is written in a pass
\* that attempted none of its edits.
multi_file_never_applied ==
  /\ \A i \in 1..Len(discovered) : ~names_several_files(discovered[i].edit.s)
  /\ \A i \in 1..Len(tried) : \A j \in 1..Len(tried[i].order) :
       ~names_several_files(tried[i].order[j].edit.s)
  /\ \A j \in 1..Len(written) : \E i \in 1..Len(tried) : tried[i].file = written[j].file

C8_ProtectedNeverWritten ==
  /\ \A i \in 1..Len(discovered) :
       ~under(discovered[i].file, cargo_home) /\ ~under(discovered[i].file, sysroot)
  /\ \A i \in 1..Len(written) :
       ~under(written[i].file, cargo_home) /\ ~under(written[i].file, sysroot)

\* C9, as stated: while the stream of a pass is read, the text of every
\* diagnostic rejected so far (no suggestion, no solution, several files,
\* protected path) is in the error set of its unit.
C9_RejectedTextKept ==
  pc = "collect" =>
    \A i \in 1..Len(classified) :
      /\ classified[i].as \in Rejections \cup {"cargo_home", "sysroot"}
      /\ classified[i].diag.rendered # None
      => classified[i].diag.rendered \in errors_of(classified[i].unit)

\* The edits discovered in this pass for a file of a unit, in stream order.
found(u, f) ==
  LET at == SelectSeq(discovered, LAMBDA e : e.unit = u /\ e.file = f)
  IN  [i \in 1..Len(at) |-> at[i].edit]

\* A sequence without the later occurrences of its elements.
RECURSIVE first_occurrences(_)
first_occurrences(q) ==
  IF q = << >> THEN << >>
  ELSE LET before == first_occurrences(SubSeq(q, 1, Len(q) - 1))
       IN  IF q[Len(q)] \in Range(before) THEN before ELSE Append(before, q[Len(q)])

\* C10: the edits attempted on a file are the edits discovered for it in
\* this pass, each once, in the reverse of the order of their first discovery.
C10_ReverseDiscoveryOrder ==
  \A i \in 1..Len(tried) :
    [j \in 1..Len(tried[i].order) |-> tried[i].order[j].edit]
      = Reverse(first_occurrences(found(tried[i].unit, tried[i].file)))

\* A file is patched with two edits, the first of which was discovered twice,
\* before and after the second.
C10_Witness ==
  \E i \in 1..Len(tried) :
    /\ Len(tried[i].order) = 2
    /\ Len(found(tried[i].unit, tried[i].file)) = 3
    /\ found(tried[i].unit, tried[i].file)[1] = found(tried[i].unit, tried[i].file)[3]

\* C11, as stated: over the run no file is named by more than one report of
\* fixes.
C11_ReportedOnce ==
  \A i \in 1..Len(out_fixed) : \A j \in 1..Len(out_fixed) :
    i # j => out_fixed[i].name # out_fixed[j].name

\* C12: in src/ops the packages announced as "Checking" are announced once
\* each, and they are the packages of the units finalized so far.
C12_CheckingOncePerPackage ==
  impl = "ops" =>
    /\ \A i \in 1..Len(out_status) : \A j \in 1..Len(out_status) :
         i # j => out_status[i] # out_status[j]
    /\ Range(out_status) = {package_id(u) : u \in seen}

\* Both units of one package and a unit of another are finalized, one of them
\* at the cap.
C12_Witness ==
  /\ impl = "ops" /\ pc = "done"
  /\ seen = {"p/lib", "p/test", "q/lib"}
  /\ Len(out_status) = 2
  /\ \E u \in Units : write_passes[u] = max_iterations /\ max_iterations > 0

\* The texts of the edits discovered in this pass for a file of a unit.
texts_found(u, f) == {found(u, f)[i].r : i \in 1..Len(found(u, f))} \ {None}

\* The files of this pass's attempts and of its failed reads.
files_tried == {tried[i].file : i \in 1..Len(tried)}

files_unread == {unread[i].file : i \in 1..Len(unread)}

\* C13: a file whose read failed in a pass has the text of every edit
\* discovered for it in the unit's error set, is neither patched nor written
\* in that pass, and every other file with edits of the unit is patched or has
\* failed to read as well; a pass all of whose reads failed made no changes.
C13_ReadFailure ==
  /\ \A i \in 1..Len(unread) :
       /\ unread[i].texts = texts_found(unread[i].unit, unread[i].file)
       /\ unread[i].texts \subseteq errors_of(unread[i].unit)
       /\ unread[i].file \notin files_tried
       /\ \A j \in 1..Len(written) : written[j].file # unread[i].file
       /\ \A j \in 1..Len(discovered) :
            discovered[j].unit = unread[i].unit
              => discovered[j].file \in files_tried \cup files_unread
  /\ (unread # << >> /\ tried = << >>) => ~made_changes
  /\ unread # << >> => pc \in {"units", "end", "check", "report", "done"}

\* The read of one file fails, its edit carries text, and another file of the
\* unit is patched and written in the same pass.
C13_Witness ==
  \E i \in 1..Len(unread), j \in 1..Len(written) :
    /\ unread[i].texts # {}
    /\ written[j].units = {unread[i].unit}
    /\ written[j].file # unread[i].file

\* C14: of the edits attempted on a file, those rustfix refuses for another
\* reason than an identical replacement, and only those, have their text in
\* the unit's error set; every edit discovered for the file is attempted, the
\* refused ones are not counted, and the file is written with the count of
\* the edits that applied.
C14_ApplyConflict ==
  \A i \in 1..Len(tried) :
    /\ \A j \in 1..Len(tried[i].order) :
         tried[i].order[j].edit.r # None =>
           (tried[i].order[j].res = "error"
              <=> tried[i].order[j].edit.r \in errors_of(tried[i].unit))
    /\ Len(tried[i].order) = Len(first_occurrences(found(tried[i].unit, tried[i].file)))
    /\ answered(tried[i], "ok") + answered(tried[i], "identical")
         + answered(tried[i], "error") = Len(tried[i].order)
    /\ answered(tried[i], "ok") > 0 =>
         \E j \in 1..Len(written) :
           /\ written[j].file = tried[i].file
           /\ written[j].fixes = Len(tried[i].order) - answered(tried[i], "error")
                                   - answered(tried[i], "identical")

\* An edit is refused between two edits of the same file that apply.
C14_Witness ==
  \E i \in 1..Len(tried) :
    /\ Len(tried[i].order) = 3
    /\ tried[i].order[1].res = "ok"
    /\ tried[i].order[2].res = "error" /\ tried[i].order[2].edit.r # None
    /\ tried[i].order[3].res = "ok"

\* C15: a line of the stream that cannot be taken as an event is never fatal
\* and never costs an event: the run does not end with the read error of a
\* line, and no well-formed message of the stream goes unprocessed because
\* of a line before it.
C15_EveryEventProcessed ==
  /\ exit # "abort"
  /\ \A i \in 1..Len(classified) : classified[i].as # "dropped"

\* The step finalizes the current unit: finalized gains an entry made at the
\* cap or for want of a modification.
finalizes_current ==
  /\ Len(finalized') = Len(finalized) + 1
  /\ finalized'[Len(finalized')].by \in {"cap", "unchanged"}

\* The reports of the fix-count buffer, one per file, in the buffer's order.
reports_of(fs) == [i \in 1..Len(fs) |-> [name |-> fs[i].k, fixes |-> fs[i].v]]

\* C16: every finalization of the current unit, at the cap or for want of a
\* modification, ends with the unit in seen, no unit current and the
\* iteration counter at 0; in exec of src/ops/fixit.rs the fix-count buffer
\* has been handed to the reporter, file by file, and is left empty.  A unit
\* finalized for want of a modification had no file written in that pass.
C16_Finalization ==
  [][ finalizes_current =>
        /\ current_target # None
        /\ finalized'[Len(finalized')].unit = current_target
        /\ current_target \in seen'
        /\ current_target' = None
        /\ iteration' = 0
        /\ (impl = "ops" =>
              /\ files' = << >>
              /\ out_fixed' = out_fixed \o reports_of(files))
        /\ (finalized'[Len(finalized')].by = "unchanged" =>
              \A j \in 1..Len(written) : current_target \notin written[j].units)
        /\ (finalized'[Len(finalized')].by = "cap" =>
              iteration + 1 >= max_iterations) ]_vars

\* A unit has just been finalized at the cap and its two fixes reported.
C16_Witness ==
  /\ impl = "ops" /\ pc = "units" /\ finalized # << >>
  /\ finalized[Len(finalized)].by = "cap"
  /\ finalized[Len(finalized)].unit \in seen
  /\ current_target = None /\ iteration = 0 /\ files = << >>
  /\ \E i \in 1..Len(out_fixed) : out_fixed[i].fixes = 2

\* The units of the sequence that stand before u.
before(q, u) == {q[i] : i \in {j \in 1..Len(q) : \A k \in 1..j : q[k] # u}}

\* C17: when no unit is current, the unit that becomes current is the first
\* unit observed in the pass's stream that is not in seen: every unit the
\* stream reported before it is in seen when it is chosen.
C17_FirstObservedBecomesCurrent ==
  [][ (current_target = None /\ current_target' # None) =>
        /\ current_target' \in Range(observed')
        /\ current_target' \notin seen
        /\ before(observed', current_target') \subseteq seen ]_vars

\* The step examines, in the loop over the pass's units, a unit that is not
\* in seen and has no edit.
examines_edit_less ==
  /\ impl = "ops" /\ pc = "units" /\ build_unit_map # << >>
  /\ Head(build_unit_map).k \notin seen
  /\ Head(build_unit_map).v = << >>
  /\ build_unit_map' = Tail(build_unit_map)

\* C18: a unit that is not in seen and has no edit, examined while no unit is
\* current, is added to seen in that step, its error texts are printed and
\* taken out of the pending errors, no file is written and no unit becomes
\* current; examined while a unit is current it is left as it is: seen, the
\* pending errors and what has been printed do not change.  A unit done with
\* in this way is not the current unit later in the pass.
C18_EditLessUnit ==
  /\ [][ examines_edit_less =>
          LET u == Head(build_unit_map).k
          IN  IF current_target = None
                THEN /\ seen' = seen \cup {u}
                     /\ out_errors' = out_errors \cup
                                        {[unit |-> u, text |-> e] : e \in errors[u]}
                     /\ errors' = [errors EXCEPT ![u] = {}]
                     /\ finalized' = Append(finalized, [unit |-> u, by |-> "empty"])
                     /\ current_target' = None
                     /\ UNCHANGED <<files, written, applied, write_passes, out_fixed>>
                ELSE UNCHANGED <<seen, errors, last_errors, current_target, term,
                                 files, written, finalized>> ]_vars
  /\ [](\A i \in 1..Len(finalized) :
          finalized[i].by = "empty" =>
            finalized[i].unit \in seen /\ finalized[i].unit # current_target)

\* A unit without edit has been done with, its text printed, and another unit
\* of the pass is current and has had a file written.
C18_Witness ==
  \E i \in 1..Len(finalized) :
    /\ finalized[i].by = "empty"
    /\ printed(finalized[i].unit, "E-plain")
    /\ errors[finalized[i].unit] = {}
    /\ current_target \notin {None, finalized[i].unit}
    /\ \E j \in 1..Len(written) : written[j].current = current_target

\* C19: whatever the cap, when exec of src/ops/fixit.rs is done no unit is
\* current and every unit the last pass's stream reported, by a diagnostic
\* or an artifact that is not fresh, is in seen.
C19_DoneAllSeen ==
  (impl = "ops" /\ pc = "done") =>
    /\ current_target = None
    /\ Range(observed) \subseteq seen

\* The fix counts reported for the file, added up over the reports.
RECURSIVE reported_fixes(_, _)
reported_fixes(f, i) ==
  IF i = 0 THEN 0
  ELSE (IF out_fixed[i].name = f THEN out_fixed[i].fixes ELSE 0) + reported_fixes(f, i - 1)

\* C20: when the run is done, the fix counts reported for a file add up to
\* the number of edits that applied to it in the passes that wrote it, and a
\* file that was never written is named by no report.
C20_FixCountsConserved ==
  pc = "done" =>
    \A f \in AllFiles :
      /\ reported_fixes(f, Len(out_fixed)) = applied[f]
      /\ (applied[f] = 0 => \A i \in 1..Len(out_fixed) : out_fixed[i].name # f)

\* The run is done and a file written in two passes is reported with its two
\* fixes.
C20_Witness ==
  /\ pc = "done"
  /\ \E f \in AllFiles : applied[f] = 2 /\ reported_fixes(f, Len(out_fixed)) = 2

\* C21: at the head of the loop of exec of src/ops/fixit.rs, before each
\* pass, the current unit, if there is one, is not in seen; with no current
\* unit the iteration counter is 0 and the buffer of fix counts is empty;
\* and at no point of the run is the iteration counter above the cap.
C21_PassStart ==
  impl = "ops" =>
    /\ pc = "check" =>
          /\ (current_target # None => current_target \notin seen)
          /\ (current_target = None => iteration = 0 /\ files = << >>)
    /\ iteration <= max_iterations

\* A pass is about to start with a current unit at the cap, fix counts in the
\* buffer and another unit done with.
C21_Witness ==
  /\ impl = "ops" /\ pc = "check" /\ passes > 0
  /\ current_target # None /\ seen # {}
  /\ iteration = max_iterations /\ files # << >>

====
